---------------------------- MODULE Spec2Model ----------------------------
(***************************************************************************)
(* Memory / knowledge-graph subsystem of the chat client:                  *)
(*   - VectorStore            (services/vectorStore/index.ts)              *)
(*   - useMemoryStore         (store/memoryStore, src/unnamed/part_000)    *)
(*   - generateEmbedding, cosineSimilarity (services/google.ts:236-270)    *)
(*                                                                         *)
(* JavaScript runs one task at a time.  An async function runs             *)
(* synchronously up to its first await; the code after an await is a       *)
(* microtask, and microtasks run in FIFO order.  The embedding model is an *)
(* external promise that settles (ok or failed) at any later time.         *)
(* Similarities are kept as integers in hundredths (0.7 is 70).            *)
(***************************************************************************)
EXTENDS Integers, Sequences, FiniteSets, TLC

VARIABLES
    memories,    \* useMemoryStore state.memories (part_000:25)
    vsMemories,  \* VectorStore.memories (index.ts:20)
    storage,     \* localStorage['nexus-chat-vector-store'] (index.ts:21)
    disk,        \* environment: does localStorage read / write throw
    constructed, \* has the VectorStore constructor run (index.ts:23-25)
    ops,         \* calls in flight: op id -> record, or Nil
    nops,        \* number of calls issued so far
    queue,       \* microtask queue: op ids whose continuation is ready
    ev,          \* the step just taken and its outcome for its caller
    deleted,     \* id -> deleteMemory(id) completed and no upsert issued since
    found,       \* last findSimilarMemories call: arguments and result
    related,     \* the getRelatedMemories call: snapshot, position, result
    extract,     \* the extractMemories call: position, locals, result
    cosine       \* a cosineSimilarity call: arguments and outcome

vars == <<memories, vsMemories, storage, disk, constructed, ops, nops,
          queue, ev, deleted, found, related, extract, cosine>>

-----------------------------------------------------------------------------
(* Bounds of the model *)

\* calls issued in one behaviour of Spec
MaxOps == 2
\* calls issued in one behaviour of SpecVS / SpecFind
MaxVSOps == 1
\* longest persisted collection drawn at Init of SpecFind
MaxStored == 3
\* largest `limit` argument tried in SpecFind
MaxLimit == 3

Ids == {1, 2}
StoredIds == {1, 2, 3}
Stamps == {1, 2}
TagSets == {<<>>, <<"t">>}

\* Texts and the vector the embedding model returns for each.  The model
\* is external (Xenova/all-MiniLM-L6-v2, normalize: true): all outputs have
\* the same length and the same norm, and it is not injective.
Contents == {"Paris", "paris", "Rome"}
AllContents == Contents \cup {"Lima"}

Embed(text) ==
    CASE text = "Paris" -> <<3, 4>>
      [] text = "paris" -> <<3, 4>>
      [] text = "Rome"  -> <<4, 3>>
      [] OTHER          -> <<-4, 3>>

\* (content, embedding) of the records a persisted collection may hold:
\* today's embeddings, one written when the embedding provider had another
\* dimension, and a zero vector.
StoredPairs ==
    {<<c, Embed(c)>> : c \in AllContents}
        \cup {<<"Rome", <<4, 3, 0>>>>, <<"Lima", <<0, 0>>>>}

\* findSimilarMemories default arguments (index.ts:82-83); 0.7 in hundredths
DefaultLimit == 5
DefaultMinSimilarity == 70

-----------------------------------------------------------------------------
(* Pure helpers *)

IdsOf(s) == {s[i].id : i \in 1..Len(s)}

Min(a, b) == IF a <= b THEN a ELSE b

\* Array.prototype.filter(m => m.id !== id)
FilterIdNot(s, id) ==
    LET f[i \in 0..Len(s)] ==
            IF i = 0 THEN <<>>
            ELSE IF s[i].id # id THEN Append(f[i - 1], s[i]) ELSE f[i - 1]
    IN f[Len(s)]

\* Array.prototype.filter(({ similarity }) => similarity >= minSimilarity)
FilterMinSimilarity(s, minSimilarity) ==
    LET f[i \in 0..Len(s)] ==
            IF i = 0 THEN <<>>
            ELSE IF s[i].similarity >= minSimilarity
                 THEN Append(f[i - 1], s[i]) ELSE f[i - 1]
    IN f[Len(s)]

\* Array.prototype.findIndex, 1-based; 0 when absent (JS: -1)
FindIndex(s, id) ==
    IF \E i \in 1..Len(s) : s[i].id = id
    THEN CHOOSE i \in 1..Len(s) :
            /\ s[i].id = id
            /\ \A j \in 1..(i - 1) : s[j].id # id
    ELSE 0

\* InsertDesc with ties reversed: an unstable sort
InsertDescUnstable(sorted, x, key) ==
    LET after == {i \in 1..Len(sorted) : sorted[i][key] <= x[key]}
        k == IF after = {} THEN Len(sorted)
             ELSE (CHOOSE i \in after : \A j \in after : i <= j) - 1
    IN SubSeq(sorted, 1, k) \o <<x>> \o SubSeq(sorted, k + 1, Len(sorted))

\* Array.prototype.sort with comparator (a, b) => b[key] - a[key]: a stable
\* sort, descending by the field `key`.  Computed by stable insertion: x goes
\* before the first element whose key is smaller than its own.
InsertDesc(sorted, x, key) ==
    LET after == {i \in 1..Len(sorted) : sorted[i][key] < x[key]}
        k == IF after = {} THEN Len(sorted)
             ELSE (CHOOSE i \in after : \A j \in after : i <= j) - 1
    IN SubSeq(sorted, 1, k) \o <<x>> \o SubSeq(sorted, k + 1, Len(sorted))

\* SortDesc with the comparator's operands swapped: ascending
SortAscending(s, key) ==
    LET f[i \in 0..Len(s)] ==
            IF i = 0 THEN <<>>
            ELSE LET before == {j \in 1..Len(f[i - 1]) :
                                   f[i - 1][j][key] <= s[i][key]}
                 IN SubSeq(f[i - 1], 1, Cardinality(before)) \o <<s[i]>>
                       \o SubSeq(f[i - 1], Cardinality(before) + 1, Len(f[i - 1]))
    IN f[Len(s)]

SortDesc(s, key) ==
    LET f[i \in 0..Len(s)] ==
            IF i = 0 THEN <<>> ELSE InsertDesc(f[i - 1], s[i], key)
    IN f[Len(s)]

\* Array.prototype.slice(0, limit), limit >= 0
Slice(s, limit) == SubSeq(s, 1, Min(limit, Len(s)))

-----------------------------------------------------------------------------
(* services/google.ts: generateEmbedding, cosineSimilarity *)

\* Math.sqrt on the sums of squares the model's vectors give (perfect squares)
Sqrt(n) == CHOOSE r \in 0..n : r * r = n

\* the loop of cosineSimilarity (google.ts:256-260): sum of a[i] * b[i]
Dot(a, b) ==
    LET g[i \in 0..Len(a)] == IF i = 0 THEN 0 ELSE g[i - 1] + a[i] * b[i]
    IN g[Len(a)]

\* a cosineSimilarity that looks at the norms before the lengths
cosineSimilarityNormsFirst(a, b) ==
    IF Sqrt(Dot(a, a)) = 0 \/ Sqrt(Dot(b, b)) = 0
    THEN [threw |-> FALSE, value |-> 0]
    ELSE IF Len(a) # Len(b)
    THEN [threw |-> TRUE, value |-> 0]
    ELSE [threw |-> FALSE,
          value |-> (Dot(a, b) * 100) \div (Sqrt(Dot(a, a)) * Sqrt(Dot(b, b)))]

\* cosineSimilarity(a, b): [threw, value]; value in hundredths
cosineSimilarity(a, b) ==
    IF Len(a) # Len(b)
    THEN [threw |-> TRUE, value |-> 0]
    ELSE LET dotProduct == Dot(a, b)
             normA == Sqrt(Dot(a, a))
             normB == Sqrt(Dot(b, b))
         IN IF normA = 0 \/ normB = 0
            THEN [threw |-> FALSE, value |-> 0]
            ELSE [threw |-> FALSE,
                  value |-> (dotProduct * 100) \div (normA * normB)]

-----------------------------------------------------------------------------
(* services/vectorStore/index.ts *)

\* saveToStorage without its try / catch: the failed write throws
saveToStorageThrows(mems, d, st) ==
    IF d = "ok"
    THEN [storage |-> [kind |-> "json", value |-> mems],
          saved |-> "ok", threw |-> FALSE]
    ELSE [storage |-> st, saved |-> "failed", threw |-> TRUE]

\* saveToStorage (index.ts:38-44): setItem throws when the disk is not "ok";
\* the catch block logs.  [storage, saved, threw]
saveToStorage(mems, d, st) ==
    IF d = "ok"
    THEN [storage |-> [kind |-> "json", value |-> mems],
          saved |-> "ok", threw |-> FALSE]
    ELSE [storage |-> st, saved |-> "failed", threw |-> FALSE]

\* loadFromStorage without its try / catch: the failed read or parse throws
loadFromStorageThrows(d, st) ==
    IF d = "denied" THEN [memories |-> <<>>, threw |-> TRUE]
    ELSE IF st.kind = "absent" THEN [memories |-> <<>>, threw |-> FALSE]
    ELSE IF st.kind = "corrupt" THEN [memories |-> <<>>, threw |-> TRUE]
    ELSE [memories |-> st.value, threw |-> FALSE]

\* loadFromStorage (index.ts:27-36) on the initial this.memories = []:
\* getItem throws when the disk is "denied", JSON.parse throws on a corrupt
\* value; the catch block logs.  [memories, threw]
loadFromStorage(d, st) ==
    IF d = "denied" THEN [memories |-> <<>>, threw |-> FALSE]
    ELSE IF st.kind = "absent" THEN [memories |-> <<>>, threw |-> FALSE]
    ELSE IF st.kind = "corrupt" THEN [memories |-> <<>>, threw |-> FALSE]
    ELSE [memories |-> st.value, threw |-> FALSE]

Outcome(threw) == IF threw THEN "rejected" ELSE "fulfilled"

\* the StoredMemory built in addMemory (index.ts:50-63)
ToStored(memory, embedding) ==
    [id         |-> memory.id,
     embedding  |-> embedding,
     content    |-> memory.content,
     confidence |-> memory.confidence,
     timestamp  |-> memory.timestamp,
     tags       |-> memory.tags]

\* the Memory-shaped projection findSimilarMemories returns (index.ts:99-112)
ToMemory(storedMemory) ==
    [id          |-> storedMemory.id,
     content     |-> storedMemory.content,
     confidence  |-> storedMemory.confidence,
     timestamp   |-> storedMemory.timestamp,
     connections |-> <<>>,
     tags        |-> storedMemory.tags]

\* Upsert without the findIndex: always push
UpsertAlwaysPush(mems, storedMemory) == Append(mems, storedMemory)

\* "Update if exists, otherwise add" (index.ts:65-71)
Upsert(mems, storedMemory) ==
    LET index == FindIndex(mems, storedMemory.id)
    IN IF index > 0
       THEN [mems EXCEPT ![index] = storedMemory]
       ELSE Append(mems, storedMemory)

\* deleteMemory's filter (index.ts:121)
DeleteById(mems, id) == FilterIdNot(mems, id)

\* VSAddMemory whose catch block logs without rethrowing
VSAddMemorySwallows(mems, memory, embedOk, d, st) ==
    IF ~embedOk
    THEN [memories |-> mems, storage |-> st, saved |-> "none",
          outcome |-> "fulfilled", replaced |-> FALSE]
    ELSE LET after == Upsert(mems, ToStored(memory, Embed(memory.content)))
             save == saveToStorage(after, d, st)
         IN [memories |-> after, storage |-> save.storage,
             saved |-> save.saved, outcome |-> Outcome(save.threw),
             replaced |-> FindIndex(mems, memory.id) > 0]

\* vectorStore.addMemory once generateEmbedding has settled (index.ts:46-78):
\* a throw inside the try block is logged and rethrown.
\* [memories, storage, saved, outcome, replaced]
VSAddMemory(mems, memory, embedOk, d, st) ==
    IF ~embedOk
    THEN [memories |-> mems, storage |-> st, saved |-> "none",
          outcome |-> "rejected", replaced |-> FALSE]
    ELSE LET after == Upsert(mems, ToStored(memory, Embed(memory.content)))
             save == saveToStorage(after, d, st)
         IN [memories |-> after, storage |-> save.storage,
             saved |-> save.saved, outcome |-> Outcome(save.threw),
             replaced |-> FindIndex(mems, memory.id) > 0]

\* a catch block that rethrows
FindRethrows == [signalled |-> TRUE, result |-> <<>>]

\* what findSimilarMemories does in its catch block (index.ts:114-117)
FindCatch == [signalled |-> FALSE, result |-> <<>>]

\* findSimilarMemories once generateEmbedding has settled (index.ts:85-117).
\* embedOk = FALSE: generateEmbedding threw.  [signalled, result]: whether
\* the caller gets an error, and the list it gets.
findSimilarMemories(mems, embedOk, queryEmbedding, limit, minSimilarity) ==
    IF ~embedOk THEN FindCatch
    ELSE IF \E i \in 1..Len(mems) :
                cosineSimilarity(queryEmbedding, mems[i].embedding).threw
    THEN FindCatch
    ELSE LET similarities ==
                 [i \in 1..Len(mems) |->
                    [storedMemory |-> mems[i],
                     similarity |->
                        cosineSimilarity(queryEmbedding, mems[i].embedding).value]]
             top == Slice(SortDesc(FilterMinSimilarity(similarities, minSimilarity),
                                   "similarity"),
                          limit)
         IN [signalled |-> FALSE,
             result |-> [i \in 1..Len(top) |->
                            [similarity |-> top[i].similarity,
                             memory |-> ToMemory(top[i].storedMemory)]]]

-----------------------------------------------------------------------------
(* store/memoryStore (src/unnamed/part_000) *)

\* the confidence of a memory whose creator gave none: 1.0, in hundredths
\* (part_000:35, memory.ts:114)
DefaultConfidence == 100

\* a confidence as a caller passes it: [given, value], value in hundredths;
\* not given is `undefined`
NoConfidence == [given |-> FALSE, value |-> 0]

\* `memory.confidence || 1.0` (part_000:35, memory.ts:114): the default
\* for undefined and for every other falsy value, 0 among them
ConfidenceOrDefault(confidence) ==
    IF ~confidence.given \/ confidence.value = 0
    THEN DefaultConfidence
    ELSE confidence.value

\* newMemory built by addMemory (part_000:31-41) for a memory that comes
\* without a confidence
NewMemory(id, content, timestamp, tags) ==
    [id          |-> id,
     content     |-> content,
     confidence  |-> ConfidenceOrDefault(NoConfidence),
     timestamp   |-> timestamp,
     connections |-> <<>>,
     tags        |-> tags]

\* the set() of addMemory (part_000:47-58)
AddToMemories(mems, newMemory) ==
    SortDesc(Append(FilterIdNot(mems, newMemory.id), newMemory), "timestamp")

\* the set() of removeMemory (part_000:63-65)
RemoveFromMemories(mems, id) == FilterIdNot(mems, id)

\* updatedMemories of updateMemoryTags (part_000:181-191)
UpdateTags(mems, id, tags) ==
    [i \in 1..Len(mems) |->
        IF mems[i].id = id THEN [mems[i] EXCEPT !.tags = tags] ELSE mems[i]]

\* does store.addMemory run its set() after `await vectorStore.addMemory`
\* (part_000:44-47): only when that promise fulfilled
AddContinues(vsOutcome) == vsOutcome = "fulfilled"

-----------------------------------------------------------------------------
(* State *)

OpIds == 1..MaxOps

NoMemory == NewMemory(0, "", 0, <<>>)

NilOp == [kind |-> "none", id |-> 0, memory |-> NoMemory,
          stage |-> "none", embed |-> "none", vs |-> "none"]

Op(kind, id, memory, stage, embed) ==
    [kind |-> kind, id |-> id, memory |-> memory, stage |-> stage,
     embed |-> embed, vs |-> "none"]

Event(step, id, outcome, saved, replaced) ==
    [step |-> step, id |-> id, outcome |-> outcome, saved |-> saved,
     replaced |-> replaced]

NoFound == [valid |-> FALSE, query |-> "", embedOk |-> FALSE, limit |-> 0,
            minSimilarity |-> 0, signalled |-> FALSE, result |-> <<>>]

NoStorage == [kind |-> "absent", value |-> <<>>]

\* no cosineSimilarity call of its own.  stage: "none", "args" (the
\* arguments are chosen), "done"
NoCosine == [stage |-> "none", a |-> <<>>, b |-> <<>>, threw |-> FALSE,
             value |-> 0]

\* no getRelatedMemories call yet.  stage: "none", "awaiting" (the call is
\* at `await vectorStore.findSimilarMemories`, part_000:131), "done"
\* removed: the ids whose removal had completed when the call was issued,
\* with no upsert issued since
NoRelated == [stage |-> "none", id |-> 0, state |-> <<>>, similar |-> <<>>,
              signalled |-> FALSE, result |-> <<>>, removed |-> {}]

\* no extractMemories call yet.  stage: "none", "lookup" (the call is at
\* memory.ts:97), "llm" (memory.ts:107), "storing" (memory.ts:145), "done".
\* before: the vector collection at the call; lookup: did the similarity
\* query fail; response: what the language model answered; memories,
\* fullMemory, index: the locals of the loop; stored: the fullMemory
\* records upserted so far; now: the clock
NoExtract == [stage |-> "none", conversation |-> "", existingMemories |-> <<>>,
              before |-> <<>>, lookup |-> "none", relevantMemories |-> <<>>,
              response |-> "none", memories |-> <<>>, index |-> 0,
              fullMemory |-> NoMemory, stored |-> <<>>,
              storeFailed |-> FALSE, now |-> 0,
              signalled |-> FALSE, returned |-> <<>>]

\* a memory persisted by an earlier session, with its stored vector
PersistedMemory == NewMemory(1, "Paris", 1, <<>>)

StoredOf(mems) ==
    [i \in 1..Len(mems) |-> ToStored(mems[i], Embed(mems[i].content))]

\* the application after start-up: nothing persisted, or one memory that an
\* earlier session added (both stores load their persisted collection)
Init ==
    /\ memories \in {<<>>, <<PersistedMemory>>}
    /\ vsMemories = StoredOf(memories)
    /\ storage = IF memories = <<>> THEN NoStorage
                 ELSE [kind |-> "json", value |-> vsMemories]
    /\ disk = "ok"
    /\ constructed = TRUE
    /\ ops = [o \in OpIds |-> NilOp]
    /\ nops = 0
    /\ queue = <<>>
    /\ ev = Event("init", 0, "none", "none", FALSE)
    /\ deleted = [i \in Ids |-> FALSE]
    /\ found = NoFound
    /\ related = NoRelated
    /\ extract = NoExtract
    /\ cosine = NoCosine

-----------------------------------------------------------------------------
(* Calls: the synchronous part of each operation, up to its first await *)

\* store.addMemory(memory) up to `await generateEmbedding` inside
\* vectorStore.addMemory (part_000:30-44, index.ts:46-48)
AddMemory(id, content, timestamp, tags) ==
    /\ constructed
    /\ ops' = [ops EXCEPT ![nops + 1] =
                  Op("addMemory", id, NewMemory(id, content, timestamp, tags),
                     "embedding", "pending")]
    /\ nops' = nops + 1
    /\ deleted' = [deleted EXCEPT ![id] = FALSE]
    /\ ev' = Event("addMemory:call", id, "pending", "none", FALSE)
    /\ UNCHANGED <<memories, vsMemories, storage, disk, constructed,
                   queue, found, related, extract, cosine>>

\* store.removeMemory(id) up to its await: vectorStore.deleteMemory has run
\* to completion (part_000:61-62, index.ts:120-123)
RemoveMemory(id) ==
    /\ constructed
    /\ LET mems == DeleteById(vsMemories, id)
           save == saveToStorage(mems, disk, storage)
       IN /\ vsMemories' = mems
          /\ storage' = save.storage
          /\ ev' = Event("deleteMemory", id, Outcome(save.threw), save.saved, FALSE)
          /\ IF save.threw
             THEN UNCHANGED <<ops, queue>>
             ELSE /\ ops' = [ops EXCEPT ![nops + 1] =
                                Op("removeMemory", id, NoMemory, "store", "none")]
                  /\ queue' = Append(queue, nops + 1)
    /\ nops' = nops + 1
    /\ deleted' = [deleted EXCEPT ![id] = TRUE]
    /\ UNCHANGED <<memories, disk, constructed, found, related,
                   extract, cosine>>

\* store.clearMemories() up to its await: vectorStore.clear has run to
\* completion (part_000:68-69, index.ts:125-128)
ClearMemories ==
    /\ constructed
    /\ LET save == saveToStorage(<<>>, disk, storage)
       IN /\ vsMemories' = <<>>
          /\ storage' = save.storage
          /\ ev' = Event("clear", 0, Outcome(save.threw), save.saved, FALSE)
          /\ IF save.threw
             THEN UNCHANGED <<ops, queue>>
             ELSE /\ ops' = [ops EXCEPT ![nops + 1] =
                                Op("clearMemories", 0, NoMemory, "store", "none")]
                  /\ queue' = Append(queue, nops + 1)
    /\ nops' = nops + 1
    /\ UNCHANGED <<memories, disk, constructed, deleted, found,
                   related, extract, cosine>>

\* store.updateMemoryTags(id, tags): the whole set() callback; the upsert
\* it starts is not awaited (part_000:179-200)
UpdateMemoryTags(id, tags) ==
    /\ constructed
    /\ LET updatedMemories == UpdateTags(memories, id, tags)
           index == FindIndex(updatedMemories, id)
       IN /\ memories' = updatedMemories
          /\ IF index > 0
             THEN /\ ops' = [ops EXCEPT ![nops + 1] =
                                Op("updateMemoryTags", id, updatedMemories[index],
                                   "embedding", "pending")]
                  /\ deleted' = [deleted EXCEPT ![id] = FALSE]
             ELSE UNCHANGED <<ops, deleted>>
    /\ nops' = nops + 1
    /\ ev' = Event("updateMemoryTags", id, "fulfilled", "none", FALSE)
    /\ UNCHANGED <<vsMemories, storage, disk, constructed, queue,
                   found, related, extract, cosine>>

\* new VectorStore() in getVectorStore (index.ts:23-25, 134-139)
Construct ==
    /\ ~constructed
    /\ LET r == loadFromStorage(disk, storage)
       IN /\ vsMemories' = r.memories
          /\ constructed' = ~r.threw
          /\ ev' = Event("constructor", 0, Outcome(r.threw), "none", FALSE)
    /\ UNCHANGED <<memories, storage, disk, ops, nops, queue,
                   deleted, found, related, extract, cosine>>

\* one findSimilarMemories(content, limit, minSimilarity) call, from its
\* call to its return, nothing else running in between; embedOk: does
\* generateEmbedding(content) succeed (index.ts:80-118)
FindSimilarMemories(content, embedOk, limit, minSimilarity) ==
    /\ constructed
    /\ LET r == findSimilarMemories(vsMemories, embedOk, Embed(content), limit,
                                    minSimilarity)
       IN /\ found' = [valid |-> TRUE, query |-> content, embedOk |-> embedOk,
                       limit |-> limit, minSimilarity |-> minSimilarity,
                       signalled |-> r.signalled, result |-> r.result]
          /\ ev' = Event("findSimilarMemories", 0, Outcome(r.signalled), "none",
                         FALSE)
    /\ UNCHANGED <<memories, vsMemories, storage, disk, constructed, ops, nops,
                   queue, deleted, related, extract, cosine>>

-----------------------------------------------------------------------------
(* Continuations *)

\* the embedding model's promise settles: generateEmbedding's continuation
\* becomes a microtask (google.ts:238-239)
EmbeddingSettles(o, ok) ==
    /\ ops[o].stage = "embedding"
    /\ ops' = [ops EXCEPT ![o].stage = "generateEmbedding",
                          ![o].embed = IF ok THEN "ok" ELSE "failed"]
    /\ queue' = Append(queue, o)
    /\ ev' = Event("embedding", ops[o].id, IF ok THEN "fulfilled" ELSE "rejected",
                   "none", FALSE)
    /\ UNCHANGED <<memories, vsMemories, storage, disk, constructed, nops,
                   deleted, found, related, extract, cosine>>

\* generateEmbedding returns the vector or throws (google.ts:240-244):
\* vectorStore.addMemory's continuation becomes a microtask
GenerateEmbeddingResumes ==
    /\ queue # <<>>
    /\ LET o == Head(queue)
       IN /\ ops[o].stage = "generateEmbedding"
          /\ ops' = [ops EXCEPT ![o].stage = "vectorStore"]
          /\ queue' = Append(Tail(queue), o)
          /\ ev' = Event("generateEmbedding", ops[o].id,
                         IF ops[o].embed = "ok" THEN "fulfilled" ELSE "rejected",
                         "none", FALSE)
    /\ UNCHANGED <<memories, vsMemories, storage, disk, constructed, nops,
                   deleted, found, related, extract, cosine>>

\* vectorStore.addMemory after its await (index.ts:48-77).  Its caller is
\* store.addMemory, which awaits it (part_000:44), or updateMemoryTags,
\* which only logs a rejection (part_000:195), or a direct caller.
VectorStoreAddResumes ==
    /\ queue # <<>>
    /\ LET o == Head(queue)
           r == VSAddMemory(vsMemories, ops[o].memory, ops[o].embed = "ok",
                            disk, storage)
       IN /\ ops[o].stage = "vectorStore"
          /\ vsMemories' = r.memories
          /\ storage' = r.storage
          /\ ev' = Event("vectorStore.addMemory", ops[o].id, r.outcome, r.saved,
                         r.replaced)
          /\ IF ops[o].kind = "addMemory"
             THEN /\ ops' = [ops EXCEPT ![o].stage = "store", ![o].vs = r.outcome]
                  /\ queue' = Append(Tail(queue), o)
             ELSE /\ ops' = [ops EXCEPT ![o] = NilOp]
                  /\ queue' = Tail(queue)
    /\ UNCHANGED <<memories, disk, constructed, nops, deleted, found,
                   related, extract, cosine>>

\* store.addMemory after `await vectorStore.addMemory` (part_000:44-59)
AddMemoryResumes ==
    /\ queue # <<>>
    /\ LET o == Head(queue)
       IN /\ ops[o].stage = "store"
          /\ ops[o].kind = "addMemory"
          /\ IF AddContinues(ops[o].vs)
             THEN /\ memories' = AddToMemories(memories, ops[o].memory)
                  /\ ev' = Event("addMemory", ops[o].id, "fulfilled", "none", FALSE)
             ELSE /\ memories' = memories
                  /\ ev' = Event("addMemory", ops[o].id, "rejected", "none", FALSE)
          /\ ops' = [ops EXCEPT ![o] = NilOp]
          /\ queue' = Tail(queue)
    /\ UNCHANGED <<vsMemories, storage, disk, constructed, nops,
                   deleted, found, related, extract, cosine>>

\* store.removeMemory after `await vectorStore.deleteMemory` (part_000:63-66)
RemoveMemoryResumes ==
    /\ queue # <<>>
    /\ LET o == Head(queue)
       IN /\ ops[o].stage = "store"
          /\ ops[o].kind = "removeMemory"
          /\ memories' = RemoveFromMemories(memories, ops[o].id)
          /\ ev' = Event("removeMemory", ops[o].id, "fulfilled", "none", FALSE)
          /\ ops' = [ops EXCEPT ![o] = NilOp]
          /\ queue' = Tail(queue)
    /\ UNCHANGED <<vsMemories, storage, disk, constructed, nops,
                   deleted, found, related, extract, cosine>>

\* store.clearMemories after `await vectorStore.clear` (part_000:70-71)
ClearMemoriesResumes ==
    /\ queue # <<>>
    /\ LET o == Head(queue)
       IN /\ ops[o].stage = "store"
          /\ ops[o].kind = "clearMemories"
          /\ memories' = <<>>
          /\ ev' = Event("clearMemories", 0, "fulfilled", "none", FALSE)
          /\ ops' = [ops EXCEPT ![o] = NilOp]
          /\ queue' = Tail(queue)
    /\ UNCHANGED <<vsMemories, storage, disk, constructed, nops,
                   deleted, found, related, extract, cosine>>

-----------------------------------------------------------------------------
(* The memory store and the vector store under concurrent calls *)

Next ==
    \/ /\ nops < MaxOps
       /\ \E id \in Ids, content \in {"Paris", "Rome"}, timestamp \in Stamps :
             AddMemory(id, content, timestamp, <<>>)
    \/ nops < MaxOps /\ \E id \in Ids : RemoveMemory(id)
    \/ nops < MaxOps /\ ClearMemories
    \/ /\ nops < MaxOps
       /\ \E id \in Ids, tags \in TagSets : UpdateMemoryTags(id, tags)
    \/ \E o \in OpIds, ok \in BOOLEAN : EmbeddingSettles(o, ok)
    \/ GenerateEmbeddingResumes
    \/ VectorStoreAddResumes
    \/ AddMemoryResumes
    \/ RemoveMemoryResumes
    \/ ClearMemoriesResumes

Spec == Init /\ [][Next]_vars

-----------------------------------------------------------------------------
(* Claims about the two stores under concurrent calls (Spec) *)

NoDuplicateIds(s) == Cardinality(IdsOf(s)) = Len(s)

\* ids a findSimilarMemories call on the current collection can return
FindableIds ==
    UNION {IdsOf([i \in 1..Len(r) |-> r[i].memory]) :
             r \in {findSimilarMemories(vsMemories, TRUE, Embed(q), DefaultLimit,
                                        minSimilarity).result :
                       q \in AllContents,
                       minSimilarity \in {0, DefaultMinSimilarity}}}

\* C1: in every reachable state every Memory of the memory collection has a
\* StoredVector with the same id in the vector store.
C1_EveryMemoryHasVector == IdsOf(memories) \subseteq IdsOf(vsMemories)

\* C2: when the embedding fails during store.addMemory, no step of that call
\* changes the memory collection, the vector collection or its persisted
\* copy, and the call ends by rejecting to its caller.
C2_FailedAddIsAtomic ==
    [][\A o \in OpIds :
          ( /\ ops[o].kind = "addMemory"
            /\ ops'[o] # ops[o]
            /\ (ops[o].embed = "failed" \/ ops'[o].embed = "failed") )
          => /\ memories' = memories
             /\ vsMemories' = vsMemories
             /\ storage' = storage
             /\ ops'[o] = NilOp
                  => ev' = Event("addMemory", ops[o].id, "rejected", "none", FALSE)
      ]_vars

\* C2 witness: a store.addMemory call whose embedding failed has rejected.
C2_Witness == ev.step = "addMemory" /\ ev.outcome = "rejected"

\* C3: in every reachable state the vector store holds at most one
\* StoredVector per id and the memory collection at most one Memory per id.
C3_UniqueIds == NoDuplicateIds(vsMemories) /\ NoDuplicateIds(memories)

\* C3 witness: two store.addMemory calls for one id overlapped; both have
\* upserted, the second replacing the record of the first.
C3_Witness ==
    /\ ev.step = "vectorStore.addMemory"
    /\ ev.replaced
    /\ \E o1, o2 \in OpIds :
          /\ o1 # o2
          /\ ops[o1].id = ev.id /\ ops[o2].id = ev.id
          /\ ops[o1].stage = "store" /\ ops[o2].stage = "store"
          /\ ops[o1].vs = "fulfilled" /\ ops[o2].vs = "fulfilled"

\* C4: once deleteMemory(id) has completed and no upsert of id has been
\* issued since, no findSimilarMemories query returns a match with that id.
C4_DeletedNeverFound == \A id \in Ids : deleted[id] => id \notin FindableIds

\* C5: when removeMemory(id) completes, neither collection holds a record
\* with that id, and its steps leave the records of other ids unchanged in
\* both; when clearMemories completes, both collections are empty.
C5_RemoveAndClearComplete ==
    [][ /\ \A id \in Ids :
             (ev'.step = "deleteMemory" /\ ev'.id = id /\ nops' = nops + 1)
             => /\ FilterIdNot(vsMemories', id) = FilterIdNot(vsMemories, id)
                /\ memories' = memories
        /\ \A o \in OpIds :
             (ops[o].kind = "removeMemory" /\ ops'[o] = NilOp)
             => /\ ops[o].id \notin IdsOf(memories')
                /\ ops[o].id \notin IdsOf(vsMemories')
                /\ FilterIdNot(memories', ops[o].id) = FilterIdNot(memories, ops[o].id)
                /\ vsMemories' = vsMemories
        /\ \A o \in OpIds :
             (ops[o].kind = "clearMemories" /\ ops'[o] = NilOp)
             => memories' = <<>> /\ vsMemories' = <<>>
      ]_vars

-----------------------------------------------------------------------------
(* The vector store with its persisted collection (SpecVS): start-up from   *)
(* what an earlier session left in localStorage, on a disk that may refuse  *)
(* reads or writes, then calls of the store                                 *)

StoredRecord(id, content, embedding) ==
    [id |-> id, embedding |-> embedding, content |-> content,
     confidence |-> DefaultConfidence, timestamp |-> 1, tags |-> <<>>]

\* collections an earlier session may have persisted
PersistedSamples ==
    {<<>>,
     <<StoredRecord(1, "Paris", <<3, 4>>)>>,
     <<StoredRecord(2, "Rome", <<4, 3>>), StoredRecord(1, "Paris", <<3, 4>>)>>,
     <<StoredRecord(1, "Paris", <<3, 4>>), StoredRecord(2, "Rome", <<4, 3, 0>>)>>}

InitVS ==
    /\ memories = <<>>
    /\ vsMemories = <<>>
    /\ storage \in {NoStorage, [kind |-> "corrupt", value |-> <<>>]}
                      \cup {[kind |-> "json", value |-> c] : c \in PersistedSamples}
    /\ disk \in {"ok", "full", "denied"}
    /\ constructed = FALSE
    /\ ops = [o \in OpIds |-> NilOp]
    /\ nops = 0
    /\ queue = <<>>
    /\ ev = Event("init", 0, "none", "none", FALSE)
    /\ deleted = [i \in Ids |-> FALSE]
    /\ found = NoFound
    /\ related = NoRelated
    /\ extract = NoExtract
    /\ cosine = NoCosine

NextVS ==
    \/ Construct
    \/ /\ nops < MaxVSOps
       /\ \E id \in Ids, content \in Contents : AddMemory(id, content, 1, <<>>)
    \/ nops < MaxVSOps /\ \E id \in Ids : RemoveMemory(id)
    \/ nops < MaxVSOps /\ ClearMemories
    \/ \E o \in OpIds, ok \in BOOLEAN : EmbeddingSettles(o, ok)
    \/ GenerateEmbeddingResumes
    \/ VectorStoreAddResumes
    \/ AddMemoryResumes
    \/ RemoveMemoryResumes
    \/ ClearMemoriesResumes

SpecVS == InitVS /\ [][NextVS]_vars

-----------------------------------------------------------------------------
(* findSimilarMemories as a function of the collection and its arguments    *)
(* (SpecFind)                                                               *)

StoredRecords ==
    {StoredRecord(id, p[1], p[2]) : id \in StoredIds, p \in StoredPairs}

StoredCollections ==
    {c \in UNION {[1..n -> StoredRecords] : n \in 0..MaxStored} :
        NoDuplicateIds(c)}

InitFind ==
    /\ memories = <<>>
    /\ vsMemories \in StoredCollections
    /\ storage = [kind |-> "json", value |-> vsMemories]
    /\ disk = "ok"
    /\ constructed = TRUE
    /\ ops = [o \in OpIds |-> NilOp]
    /\ nops = 0
    /\ queue = <<>>
    /\ ev = Event("init", 0, "none", "none", FALSE)
    /\ deleted = [i \in Ids |-> FALSE]
    /\ found = NoFound
    /\ related = NoRelated
    /\ extract = NoExtract
    /\ cosine = NoCosine

\* one call on each collection: a second call would read the same collection
NextFind ==
    /\ ~found.valid
    /\ \E content \in AllContents, embedOk \in BOOLEAN, limit \in 0..MaxLimit,
          minSimilarity \in {0, DefaultMinSimilarity, 100} :
             FindSimilarMemories(content, embedOk, limit, minSimilarity)

SpecFind == InitFind /\ [][NextFind]_vars

\* the last step was a findSimilarMemories call: `found` is its result on
\* the current collection
JustFound == ev.step = "findSimilarMemories" /\ found.valid

\* similarity of the i-th stored vector to the query of the last call
SimilarityAt(i) ==
    cosineSimilarity(Embed(found.query), vsMemories[i].embedding).value

DimensionMismatch ==
    \E i \in 1..Len(vsMemories) :
        Len(vsMemories[i].embedding) # Len(Embed(found.query))

\* stored vectors at or above the floor of the last call
Qualifying == {i \in 1..Len(vsMemories) : SimilarityAt(i) >= found.minSimilarity}

\* position of stored vector i among the qualifying ones: behind every one
\* that scores higher and every equal one inserted earlier
RankOf(i) ==
    1 + Cardinality({j \in Qualifying :
                        \/ SimilarityAt(j) > SimilarityAt(i)
                        \/ SimilarityAt(j) = SimilarityAt(i) /\ j < i})

\* C6: a findSimilarMemories call whose embedding succeeded on vectors of the
\* query's dimension returns the first `limit` entries of the stored vectors
\* with similarity >= minSimilarity in descending similarity, ties in
\* insertion order, each as its Memory projection with its similarity.
C6_FindReturnsTopMatches ==
    (JustFound /\ found.embedOk /\ ~DimensionMismatch)
    => /\ ~found.signalled
       /\ Len(found.result) = Min(found.limit, Cardinality(Qualifying))
       /\ \A i \in Qualifying :
             RankOf(i) <= found.limit
             => found.result[RankOf(i)] =
                   [similarity |-> SimilarityAt(i),
                    memory |-> ToMemory(vsMemories[i])]

\* C6 witness: a call that returns two vectors of equal similarity and cuts
\* a third, qualifying one off at the limit.
C6_Witness ==
    /\ JustFound /\ found.embedOk /\ ~DimensionMismatch
    /\ Len(found.result) < Cardinality(Qualifying)
    /\ Len(found.result) = 2
    /\ found.result[1].similarity = found.result[2].similarity

FindFailed == JustFound /\ (~found.embedOk \/ DimensionMismatch)

-----------------------------------------------------------------------------
(* Claims about persistence and the round trip (SpecVS) *)

\* the last step was a VectorStore mutation whose write to localStorage threw
WriteFailed ==
    /\ ev.step \in {"vectorStore.addMemory", "deleteMemory", "clear"}
    /\ ev.saved = "failed"

ReadFailed == disk = "denied" \/ storage.kind = "corrupt"

\* C9: when reading or parsing the persisted collection fails in the
\* constructor, the VectorStore is constructed without an error and its
\* in-memory collection is empty.
C9_LoadFailsOpen ==
    (ev.step = "constructor" /\ ReadFailed)
    => ev.outcome = "fulfilled" /\ constructed /\ vsMemories = <<>>

\* C9 witness: the constructor has run on an unparseable persisted value.
C9_Witness ==
    ev.step = "constructor" /\ storage.kind = "corrupt" /\ disk = "ok"

\* the last step was the successful upsert of the record with id ev.id
JustUpserted == ev.step = "vectorStore.addMemory" /\ ev.outcome = "fulfilled"

Upserted == vsMemories[FindIndex(vsMemories, ev.id)]

\* findSimilarMemories(m.content, limit = 1, minSimilarity = 0) on the
\* current collection, m the record just upserted, the query embedding
\* succeeding
RoundTrip ==
    findSimilarMemories(vsMemories, TRUE, Embed(Upserted.content), 1, 0).result

StaleDimension ==
    \E i \in 1..Len(vsMemories) :
        Len(vsMemories[i].embedding) # Len(Embed(Upserted.content))

\* stored before m's record with an embedding of similarity 1.0 to m's
EarlierTwin ==
    \E j \in 1..(FindIndex(vsMemories, ev.id) - 1) :
        cosineSimilarity(Embed(Upserted.content), vsMemories[j].embedding).value
            = 100

\* C10 as stated: after a successful upsert of m, whatever the store held
\* before, findSimilarMemories(m.content, 1, 0) returns one match whose
\* content equals m.content.
C10_RoundTrip ==
    JustUpserted
    => Len(RoundTrip) = 1 /\ RoundTrip[1].memory.content = Upserted.content

\* C10 amended: the query returns nothing when a stored vector has another
\* length than the query embedding; otherwise it returns one match of
\* similarity 1.0, which is m's record unless a record stored before it has
\* an embedding of similarity 1.0 to m's.
C10_RoundTripAmended ==
    JustUpserted
    => IF StaleDimension
       THEN RoundTrip = <<>>
       ELSE /\ Len(RoundTrip) = 1
            /\ RoundTrip[1].similarity = 100
            /\ ~EarlierTwin => RoundTrip[1].memory = ToMemory(Upserted)

\* C10 witness: m was upserted behind a record of lower similarity, and the
\* query returns m's content.
C10_Witness ==
    /\ JustUpserted
    /\ ~StaleDimension
    /\ FindIndex(vsMemories, ev.id) > 1
    /\ ~EarlierTwin
    /\ RoundTrip[1].memory.content = Upserted.content

-----------------------------------------------------------------------------
(* The connection graph: addConnection, removeConnection, getRelatedMemories *)
(* (part_000:81-177).  Strengths are kept in hundredths like similarities.  *)

Max(a, b) == IF a >= b THEN a ELSE b

\* newConnection (part_000:88-93); description is "undefined" when omitted
Connection(type, targetId, strength, description) ==
    [type |-> type, targetId |-> targetId, strength |-> strength,
     description |-> description]

\* connections.findIndex(conn => conn.targetId === targetId), 1-based; 0
\* when absent (JS: -1)
FindConnectionIndex(connections, targetId) ==
    IF \E k \in 1..Len(connections) : connections[k].targetId = targetId
    THEN CHOOSE k \in 1..Len(connections) :
            /\ connections[k].targetId = targetId
            /\ \A j \in 1..(k - 1) : connections[j].targetId # targetId
    ELSE 0

\* connections.filter(conn => conn.targetId !== targetId)
FilterTargetNot(connections, targetId) ==
    LET f[k \in 0..Len(connections)] ==
            IF k = 0 THEN <<>>
            ELSE IF connections[k].targetId # targetId
                 THEN Append(f[k - 1], connections[k]) ELSE f[k - 1]
    IN f[Len(connections)]

\* an addConnection that gives the target the reverse connection as well
addConnectionBothWays(mems, sourceId, targetId, type, strength, description) ==
    [i \in 1..Len(mems) |->
        IF mems[i].id = sourceId
        THEN [mems[i] EXCEPT !.connections =
                 Append(FilterTargetNot(@, targetId),
                        Connection(type, targetId, strength, description))]
        ELSE IF mems[i].id = targetId
        THEN [mems[i] EXCEPT !.connections =
                 Append(FilterTargetNot(@, sourceId),
                        Connection(type, sourceId, strength, description))]
        ELSE mems[i]]

\* the memories computed by addConnection's set() (part_000:81-110)
addConnection(mems, sourceId, targetId, type, strength, description) ==
    [i \in 1..Len(mems) |->
        IF mems[i].id = sourceId
        THEN LET existingConnectionIndex ==
                     FindConnectionIndex(mems[i].connections, targetId)
                 newConnection == Connection(type, targetId, strength, description)
                 connections ==
                     IF existingConnectionIndex > 0
                     THEN SubSeq(mems[i].connections, 1,
                                 existingConnectionIndex - 1)
                            \o <<newConnection>>
                            \o SubSeq(mems[i].connections,
                                      existingConnectionIndex + 1,
                                      Len(mems[i].connections))
                     ELSE Append(mems[i].connections, newConnection)
             IN [mems[i] EXCEPT !.connections = connections]
        ELSE mems[i]]

\* removeConnection without the test on the source id
removeConnectionEverywhere(mems, sourceId, targetId) ==
    [i \in 1..Len(mems) |->
        [mems[i] EXCEPT !.connections = FilterTargetNot(@, targetId)]]

\* the memories computed by removeConnection's set() (part_000:112-124)
removeConnection(mems, sourceId, targetId) ==
    [i \in 1..Len(mems) |->
        IF mems[i].id = sourceId
        THEN [mems[i] EXCEPT !.connections = FilterTargetNot(@, targetId)]
        ELSE mems[i]]

\* The edges the two forEach loops of getRelatedMemories visit, in order.
\* Each names the id it relates to the target, its strength, and whether the
\* strength is merged by Math.max (part_000:146-149) or set (part_000:139).
OutgoingEdges(target) ==
    [k \in 1..Len(target.connections) |->
        [id |-> target.connections[k].targetId,
         strength |-> target.connections[k].strength,
         max |-> FALSE]]

EdgesTo(memory, id) ==
    LET f[k \in 0..Len(memory.connections)] ==
            IF k = 0 THEN <<>>
            ELSE IF memory.connections[k].targetId = id
                 THEN Append(f[k - 1],
                             [id |-> memory.id,
                              strength |-> memory.connections[k].strength,
                              max |-> TRUE])
                 ELSE f[k - 1]
    IN f[Len(memory.connections)]

IncomingEdges(state, id) ==
    LET f[i \in 0..Len(state)] ==
            IF i = 0 THEN <<>> ELSE f[i - 1] \o EdgesTo(state[i], id)
    IN f[Len(state)]

\* the keys of a Set or Map in iteration order: each in the place of its
\* first insertion
Distinct(ids) ==
    LET f[k \in 0..Len(ids)] ==
            IF k = 0 THEN <<>>
            ELSE IF \E j \in 1..Len(f[k - 1]) : f[k - 1][j] = ids[k]
                 THEN f[k - 1] ELSE Append(f[k - 1], ids[k])
    IN f[Len(ids)]

\* relationStrengths.get(relatedId) || 0 once both loops have run
RelationStrength(edges, relatedId) ==
    LET f[k \in 0..Len(edges)] ==
            IF k = 0 THEN 0
            ELSE IF edges[k].id # relatedId THEN f[k - 1]
            ELSE IF edges[k].max THEN Max(edges[k].strength, f[k - 1])
            ELSE edges[k].strength
    IN f[Len(edges)]

\* semanticMemories.get(id): index of the match in similarMemories, 0 when
\* absent; a Map keeps the last value set for a key (part_000:132)
SemanticMatch(similarMemories, id) ==
    LET hits == {k \in 1..Len(similarMemories) :
                    similarMemories[k].memory.id = id}
    IN IF hits = {} THEN 0 ELSE CHOOSE k \in hits : \A j \in hits : j <= k

\* semanticStrength (part_000:161)
SemanticStrength(similarMemories, id) ==
    LET k == SemanticMatch(similarMemories, id)
    IN IF k > 0 THEN similarMemories[k].similarity ELSE 0

\* combinedStrength (part_000:162)
CombinedStrength(explicitStrength, semanticStrength) ==
    Max(explicitStrength, semanticStrength)

\* RelatedItems that also drops a related id without a semantic match
RelatedItemsSemantic(state, relatedIds, edges, similarMemories) ==
    LET f[k \in 0..Len(relatedIds)] ==
            IF k = 0 THEN <<>>
            ELSE IF \/ FindIndex(state, relatedIds[k]) = 0
                    \/ SemanticMatch(similarMemories, relatedIds[k]) = 0
                 THEN f[k - 1]
                 ELSE Append(f[k - 1],
                        [memory |-> state[FindIndex(state, relatedIds[k])],
                         strength |->
                            CombinedStrength(
                                RelationStrength(edges, relatedIds[k]),
                                SemanticStrength(similarMemories, relatedIds[k]))])
    IN f[Len(relatedIds)]

\* Array.from(relatedIds).map(...).filter(item => item !== null)
\* (part_000:154-166): a related id without a Memory in the snapshot is
\* dropped
RelatedItems(state, relatedIds, edges, similarMemories) ==
    LET f[k \in 0..Len(relatedIds)] ==
            IF k = 0 THEN <<>>
            ELSE IF FindIndex(state, relatedIds[k]) = 0
                 THEN f[k - 1]
                 ELSE Append(f[k - 1],
                        [memory |-> state[FindIndex(state, relatedIds[k])],
                         strength |->
                            CombinedStrength(
                                RelationStrength(edges, relatedIds[k]),
                                SemanticStrength(similarMemories, relatedIds[k]))])
    IN f[Len(relatedIds)]

\* the matches of semanticMemories.forEach that are pushed (part_000:170-174)
SemanticOnly(relatedIds, similarMemories) ==
    LET keys == Distinct([k \in 1..Len(similarMemories) |->
                             similarMemories[k].memory.id])
        f[k \in 0..Len(keys)] ==
            IF k = 0 THEN <<>>
            ELSE IF \E j \in 1..Len(relatedIds) : relatedIds[j] = keys[k]
                 THEN f[k - 1]
                 ELSE Append(f[k - 1],
                        similarMemories[SemanticMatch(similarMemories,
                                                      keys[k])].memory)
    IN f[Len(keys)]

\* AppendSemanticOnly with unshift in place of push
PrependSemanticOnly(allRelatedMemories, relatedIds, similarMemories) ==
    SemanticOnly(relatedIds, similarMemories) \o allRelatedMemories

\* allRelatedMemories after semanticMemories.forEach (part_000:170-176)
AppendSemanticOnly(allRelatedMemories, relatedIds, similarMemories) ==
    allRelatedMemories \o SemanticOnly(relatedIds, similarMemories)

\* getRelatedMemories for an absent id, throwing instead of returning
RelatedOfAbsentThrows == [signalled |-> TRUE, result |-> <<>>]

\* `if (!target) return []` (part_000:129)
RelatedOfAbsent == [signalled |-> FALSE, result |-> <<>>]

\* getRelatedMemories(id) on the snapshot `state` taken at the call, once
\* findSimilarMemories has returned similarMemories (part_000:126-177).
\* [signalled, result]
getRelatedMemories(state, id, similarMemories) ==
    IF FindIndex(state, id) = 0 THEN RelatedOfAbsent
    ELSE LET target == state[FindIndex(state, id)]
             edges == OutgoingEdges(target) \o IncomingEdges(state, id)
             relatedIds == Distinct([k \in 1..Len(edges) |-> edges[k].id])
             sorted == SortDesc(RelatedItems(state, relatedIds, edges,
                                             similarMemories),
                                "strength")
             allRelatedMemories == [k \in 1..Len(sorted) |-> sorted[k].memory]
         IN [signalled |-> FALSE,
             result |-> AppendSemanticOnly(allRelatedMemories, relatedIds,
                                           similarMemories)]

-----------------------------------------------------------------------------
(* Calls on the connection graph *)

\* the step just taken by a graph call: the call, its source and target
\* ids, and whether the source memory already had a connection to the target
GraphEvent(step, sourceId, targetId, existing) ==
    [step |-> step, id |-> sourceId, outcome |-> "fulfilled", saved |-> "none",
     replaced |-> existing, targetId |-> targetId]

\* did memory `sourceId` of mems have a connection to targetId
HasConnection(mems, sourceId, targetId) ==
    /\ FindIndex(mems, sourceId) > 0
    /\ FindConnectionIndex(mems[FindIndex(mems, sourceId)].connections,
                           targetId) > 0

\* store.addMemory(memory) for a memory that comes with connections
\* (part_000:36), up to `await generateEmbedding` (as AddMemory)
AddMemoryConnected(id, content, timestamp, tags, connections) ==
    /\ constructed
    /\ ops' = [ops EXCEPT ![nops + 1] =
                  Op("addMemory", id,
                     [NewMemory(id, content, timestamp, tags)
                         EXCEPT !.connections = connections],
                     "embedding", "pending")]
    /\ nops' = nops + 1
    /\ deleted' = [deleted EXCEPT ![id] = FALSE]
    /\ ev' = Event("addMemory:call", id, "pending", "none", FALSE)
    /\ UNCHANGED <<memories, vsMemories, storage, disk, constructed, queue,
                   found, related, extract, cosine>>

\* store.addConnection(sourceId, targetId, type, strength, description):
\* the whole set() (part_000:81-110)
AddConnection(sourceId, targetId, type, strength, description) ==
    /\ memories' = addConnection(memories, sourceId, targetId, type, strength,
                                 description)
    /\ nops' = nops + 1
    /\ ev' = GraphEvent("addConnection", sourceId, targetId,
                        HasConnection(memories, sourceId, targetId))
    /\ UNCHANGED <<vsMemories, storage, disk, constructed, ops, queue, deleted,
                   found, related, extract, cosine>>

\* store.removeConnection(sourceId, targetId): the whole set()
\* (part_000:112-124)
RemoveConnection(sourceId, targetId) ==
    /\ memories' = removeConnection(memories, sourceId, targetId)
    /\ nops' = nops + 1
    /\ ev' = GraphEvent("removeConnection", sourceId, targetId,
                        HasConnection(memories, sourceId, targetId))
    /\ UNCHANGED <<vsMemories, storage, disk, constructed, ops, queue, deleted,
                   found, related, extract, cosine>>

\* ids whose removeMemory has completed (the vector deleted, the Memory
\* filtered out) with no upsert of the id issued since
RemovedIds ==
    {id \in Ids :
        /\ deleted[id]
        /\ \A o \in OpIds : ~(ops[o].kind = "removeMemory" /\ ops[o].id = id)}

\* store.getRelatedMemories(id) up to its first await: the snapshot
\* `state = get()`, the lookup of the target, the early return, the call
\* of findSimilarMemories (part_000:126-131)
GetRelatedMemories(id) ==
    /\ constructed
    /\ related.stage = "none"
    /\ IF FindIndex(memories, id) = 0
       THEN LET r == getRelatedMemories(memories, id, <<>>)
            IN related' = [stage |-> "done", id |-> id, state |-> memories,
                           similar |-> <<>>, signalled |-> r.signalled,
                           result |-> r.result, removed |-> RemovedIds]
       ELSE related' = [stage |-> "awaiting", id |-> id, state |-> memories,
                        similar |-> <<>>, signalled |-> FALSE,
                        result |-> <<>>, removed |-> RemovedIds]
    /\ ev' = Event("getRelatedMemories:call", id, "pending", "none", FALSE)
    /\ UNCHANGED <<memories, vsMemories, storage, disk, constructed, ops, nops,
                   queue, deleted, found, extract, cosine>>

\* the embedding of target.content has settled (embedOk: with a vector) and
\* no microtask is waiting: findSimilarMemories reads the vector collection
\* and returns, and getRelatedMemories runs to its return (index.ts:85-117,
\* part_000:131-176)
GetRelatedMemoriesResumes(embedOk) ==
    /\ related.stage = "awaiting"
    /\ queue = <<>>
    /\ LET target == related.state[FindIndex(related.state, related.id)]
           similarMemories ==
               findSimilarMemories(vsMemories, embedOk, Embed(target.content),
                                   DefaultLimit, DefaultMinSimilarity).result
           r == getRelatedMemories(related.state, related.id, similarMemories)
       IN related' = [related EXCEPT !.stage = "done",
                                     !.similar = similarMemories,
                                     !.signalled = r.signalled,
                                     !.result = r.result]
    /\ ev' = Event("getRelatedMemories", related.id, "fulfilled", "none", FALSE)
    /\ UNCHANGED <<memories, vsMemories, storage, disk, constructed, ops, nops,
                   queue, deleted, found, extract, cosine>>

-----------------------------------------------------------------------------
(* The memory collection as a graph (SpecGraph): memories of an earlier      *)
(* session, then connection calls, addMemory calls and one                   *)
(* getRelatedMemories call                                                   *)

\* calls issued in one behaviour of SpecGraph, getRelatedMemories aside
MaxGraphOps == 2

\* addMemory calls in one behaviour of SpecGraph, issued before the others
MaxGraphAdds == 1

\* (type, strength, description) of the connections the calls add
ConnectionValues ==
    {<<"related_to", 50, "undefined">>, <<"causes", 96, "why">>}

\* content of the memory with each id: "Lima" is dissimilar to the others
GraphContent(id) ==
    CASE id = 1 -> "Paris"
      [] id = 2 -> "Lima"
      [] OTHER  -> "Rome"

GraphMemory(id) == NewMemory(id, GraphContent(id), 1, <<>>)

\* a memory of an earlier session with the connections it was given
LinkedMemory(id, connections) ==
    [GraphMemory(id) EXCEPT !.connections = connections]

\* collections an earlier session left: equal timestamps, so the order is
\* the order of insertion (part_000:56 is a stable sort); the last one with
\* the connections 3 -> 1 and 1 -> 2
GraphCollections ==
    {<<>>,
     <<GraphMemory(1), GraphMemory(2)>>,
     <<GraphMemory(1), GraphMemory(2), GraphMemory(3)>>,
     <<LinkedMemory(3, <<Connection("related_to", 1, 50, "undefined")>>),
       GraphMemory(2),
       LinkedMemory(1, <<Connection("causes", 2, 96, "why")>>)>>}

\* ids getRelatedMemories is called with: "Paris" and "Rome", similar to
\* each other, each present in some collections and absent from others
RelatedTargets == {1, 3}

\* the connection lists an added memory comes with
AddedConnections ==
    {<<Connection("related_to", 2, 96, "undefined")>>,
     <<Connection("related_to", 2, 96, "undefined"),
       Connection("causes", 2, 50, "why")>>}

InitGraph ==
    /\ memories \in GraphCollections
    /\ vsMemories = StoredOf(memories)
    /\ storage = [kind |-> "json", value |-> vsMemories]
    /\ disk = "ok"
    /\ constructed = TRUE
    /\ ops = [o \in OpIds |-> NilOp]
    /\ nops = 0
    /\ queue = <<>>
    /\ ev = Event("init", 0, "none", "none", FALSE)
    /\ deleted = [i \in Ids |-> FALSE]
    /\ found = NoFound
    /\ related = NoRelated
    /\ extract = NoExtract
    /\ cosine = NoCosine

NextGraph ==
    /\ related.stage # "done"
    /\ \/ /\ nops < MaxGraphOps
          /\ \E sourceId \in StoredIds, targetId \in StoredIds,
                v \in ConnectionValues :
                AddConnection(sourceId, targetId, v[1], v[2], v[3])
       \/ /\ nops < MaxGraphOps
          /\ \E sourceId \in StoredIds, targetId \in StoredIds :
                RemoveConnection(sourceId, targetId)
       \/ /\ nops < MaxGraphAdds
          /\ \E connections \in AddedConnections :
                AddMemoryConnected(1, "Paris", 1, <<>>, connections)
       \/ \E id \in RelatedTargets : GetRelatedMemories(id)
       \/ \E embedOk \in BOOLEAN : GetRelatedMemoriesResumes(embedOk)
       \/ \E o \in OpIds, ok \in BOOLEAN : EmbeddingSettles(o, ok)
       \/ GenerateEmbeddingResumes
       \/ VectorStoreAddResumes
       \/ AddMemoryResumes

SpecGraph == InitGraph /\ [][NextGraph]_vars

-----------------------------------------------------------------------------
(* Claims about the connection calls (SpecGraph) *)

ConnectionsOf(mems, id) == mems[FindIndex(mems, id)].connections

\* positions of the connections to targetId / to another target
PlacesTo(connections, targetId) ==
    {k \in 1..Len(connections) : connections[k].targetId = targetId}

PlacesNotTo(connections, targetId) ==
    {k \in 1..Len(connections) : connections[k].targetId # targetId}

\* the connections of `before` to another target than targetId are the
\* connections of `after` to another target, with their values, in the
\* same relative order
OthersKept(before, after, targetId) ==
    LET b == PlacesNotTo(before, targetId)
        a == PlacesNotTo(after, targetId)
    IN /\ Cardinality(a) = Cardinality(b)
       /\ \A k \in b : \E j \in a :
             /\ Cardinality({i \in a : i <= j}) = Cardinality({i \in b : i <= k})
             /\ after[j] = before[k]

\* C11: addConnection(S, T, type, strength, description) on an existing
\* memory S leaves S with exactly one connection to T, carrying the values
\* of this call; an earlier connection to T is replaced at its position, and
\* the connections of S to other targets keep their values and their order.
C11_AddConnectionUpserts ==
    [][\A S \in StoredIds, T \in StoredIds, v \in ConnectionValues :
          (AddConnection(S, T, v[1], v[2], v[3]) /\ FindIndex(memories, S) > 0)
          => LET before == ConnectionsOf(memories, S)
                 after == ConnectionsOf(memories', S)
             IN /\ Cardinality(PlacesTo(after, T)) = 1
                /\ \A k \in PlacesTo(after, T) :
                      after[k] = Connection(v[1], T, v[2], v[3])
                /\ PlacesTo(before, T) # {}
                      => FindConnectionIndex(after, T)
                            = FindConnectionIndex(before, T)
                /\ OthersKept(before, after, T)
      ]_vars

\* C12: in every reachable state every Memory has at most one connection
\* per target id.
C12_OneConnectionPerTarget ==
    \A i \in 1..Len(memories) : \A T \in StoredIds :
        Cardinality(PlacesTo(memories[i].connections, T)) <= 1

\* C13: removeConnection(S, T) leaves S without a connection to T and with
\* its other connections and fields as they were; when S is absent or has no
\* connection to T the collection is unchanged; the vector store, its
\* persisted copy and every other memory are unchanged in all cases.
C13_RemoveConnectionFrame ==
    [][\A S \in StoredIds, T \in StoredIds :
          RemoveConnection(S, T)
          => /\ vsMemories' = vsMemories
             /\ storage' = storage
             /\ Len(memories') = Len(memories)
             /\ \A i \in 1..Len(memories) :
                   IF memories[i].id # S
                   THEN memories'[i] = memories[i]
                   ELSE /\ PlacesTo(memories'[i].connections, T) = {}
                        /\ OthersKept(memories[i].connections,
                                      memories'[i].connections, T)
                        /\ [memories'[i] EXCEPT !.connections = <<>>]
                              = [memories[i] EXCEPT !.connections = <<>>]
             /\ ~HasConnection(memories, S, T) => memories' = memories
      ]_vars

\* C13 witness: a connection was removed from a memory that keeps its
\* connection to another target.
C13_Witness ==
    /\ ev.step = "removeConnection"
    /\ ev.replaced
    /\ PlacesNotTo(ConnectionsOf(memories, ev.id), ev.targetId) # {}

-----------------------------------------------------------------------------
(* Claims about getRelatedMemories (SpecGraph).  The call works on the       *)
(* snapshot of the collection taken when it was issued: related.state.       *)

\* the call has returned for a target that was in the collection
RelatedDone ==
    related.stage = "done" /\ FindIndex(related.state, related.id) > 0

RelatedTarget == related.state[FindIndex(related.state, related.id)]

PointsAt(memory, id) == PlacesTo(memory.connections, id) # {}

\* ids with a connection from or to the target
EdgeIds ==
    {RelatedTarget.connections[k].targetId :
        k \in 1..Len(RelatedTarget.connections)}
    \cup {B \in IdsOf(related.state) :
            PointsAt(related.state[FindIndex(related.state, B)], related.id)}

\* memories of the collection with a connection from or to the target
Linked == EdgeIds \cap IdsOf(related.state)

\* ids the similarity query returned
SimilarIds ==
    {related.similar[k].memory.id : k \in 1..Len(related.similar)}

SemanticOnlyIds == SimilarIds \ EdgeIds

SimilarityOf(B) ==
    IF B \in SimilarIds
    THEN LET k == CHOOSE k \in 1..Len(related.similar) :
                     related.similar[k].memory.id = B
         IN related.similar[k].similarity
    ELSE 0

\* strengths of the edges target -> B and B -> target
EdgeStrengths(B) ==
    {RelatedTarget.connections[k].strength :
        k \in PlacesTo(RelatedTarget.connections, B)}
    \cup (IF B \in IdsOf(related.state)
          THEN {ConnectionsOf(related.state, B)[k].strength :
                  k \in PlacesTo(ConnectionsOf(related.state, B), related.id)}
          ELSE {})

ExplicitOf(B) ==
    CHOOSE x \in EdgeStrengths(B) : \A y \in EdgeStrengths(B) : y <= x

CombinedOf(B) == Max(ExplicitOf(B), SimilarityOf(B))

\* order of discovery: the target's own connections first, then the
\* memories pointing at the target in collection order
DiscoveredAt(B) ==
    IF PointsAt(RelatedTarget, B)
    THEN FindConnectionIndex(RelatedTarget.connections, B)
    ELSE Len(RelatedTarget.connections) + FindIndex(related.state, B)

\* place of a linked memory: behind every stronger one and every equally
\* strong one discovered earlier
PlaceOf(B) ==
    1 + Cardinality({C \in Linked :
                        \/ CombinedOf(C) > CombinedOf(B)
                        \/ /\ CombinedOf(C) = CombinedOf(B)
                           /\ DiscoveredAt(C) < DiscoveredAt(B)})

ResultPlaces(B) ==
    {k \in 1..Len(related.result) : related.result[k].id = B}

\* C14: getRelatedMemories(id) for an id that is not in the collection
\* returns the empty list, signals no error and changes no state.
C14_AbsentIdYieldsEmpty ==
    [][\A id \in RelatedTargets :
          (GetRelatedMemories(id) /\ FindIndex(memories, id) = 0)
          => /\ related'.stage = "done"
             /\ ~related'.signalled
             /\ related'.result = <<>>
             /\ UNCHANGED <<memories, vsMemories, storage>>
      ]_vars

\* C14 witness: the call returned for an absent id that a memory of the
\* collection still points at.
C14_Witness ==
    /\ related.stage = "done"
    /\ FindIndex(related.state, related.id) = 0
    /\ \E i \in 1..Len(related.state) : PointsAt(related.state[i], related.id)

\* C15: every memory of the collection with a connection from or to the
\* target is in the result of getRelatedMemories, whatever its similarity
\* to the target.
C15_LinkedAreReturned ==
    RelatedDone
    => \A B \in Linked :
          \E k \in 1..Len(related.result) :
             related.result[k] = related.state[FindIndex(related.state, B)]

\* C15 witness: a linked memory that the similarity query did not return is
\* in the result, next to one that it did return.
C15_Witness ==
    /\ RelatedDone
    /\ \E B \in Linked : B \notin SimilarIds /\ ResultPlaces(B) # {}
    /\ \E B \in Linked : B \in SimilarIds

\* C16: the linked memories come first in descending combined strength =
\* max(explicit, semantic), explicit the maximum strength over the edges
\* between the target and the memory, ties in order of discovery.
C16_LinkedRankedByStrength ==
    RelatedDone
    => \A B \in Linked :
          /\ PlaceOf(B) <= Len(related.result)
          /\ related.result[PlaceOf(B)].id = B

\* C17: every memory found by similarity only comes after every linked
\* memory, and those memories come in descending similarity.
C17_SemanticOnlyLast ==
    RelatedDone
    => /\ \A B \in SemanticOnlyIds : ResultPlaces(B) # {}
       /\ \A p, q \in 1..Len(related.result) :
             /\ ( /\ related.result[p].id \in Linked
                  /\ related.result[q].id \in SemanticOnlyIds ) => p < q
             /\ ( /\ related.result[p].id \in SemanticOnlyIds
                  /\ related.result[q].id \in SemanticOnlyIds
                  /\ p < q )
                => SimilarityOf(related.result[p].id)
                      >= SimilarityOf(related.result[q].id)

\* C17 witness: two memories found by similarity only, stored in ascending
\* similarity, behind a linked memory weaker than both.
C17_Witness ==
    /\ RelatedDone
    /\ \E B \in Linked : \A C \in SemanticOnlyIds : CombinedOf(B) < SimilarityOf(C)
    /\ \E C, D \in SemanticOnlyIds :
          /\ SimilarityOf(C) > SimilarityOf(D)
          /\ FindIndex(vsMemories, D) < FindIndex(vsMemories, C)

-----------------------------------------------------------------------------
(* Claims about updateMemoryTags (Spec) *)

\* no call is in flight: every updateMemoryTags call and the upsert it
\* started have finished
Quiescent == \A o \in OpIds : ops[o] = NilOp

\* C18: once every updateMemoryTags call and the upserts they started have
\* finished, the StoredVector of an id has the tags of the Memory of that
\* id, also when two calls overlapped or an embedding failed.
C18_TagsInSync ==
    Quiescent
    => \A i \in 1..Len(memories) : \A j \in 1..Len(vsMemories) :
          memories[i].id = vsMemories[j].id
          => memories[i].tags = vsMemories[j].tags

-----------------------------------------------------------------------------
(* services/memory.ts: MemoryService.extractMemories (memory.ts:91-157) *)

\* String.prototype.toLowerCase on the texts of the model
LowerCase(text) ==
    CASE text = "Paris" -> "paris"
      [] text = "PARIS" -> "paris"
      [] text = "Rome"  -> "rome"
      [] text = "Lima"  -> "lima"
      [] text = "Oslo"  -> "oslo"
      [] text = "ARI"   -> "ari"
      [] OTHER          -> text

\* String.prototype.includes on the lower-case texts of the model
Includes(text, part) ==
    \/ part = ""
    \/ part = text
    \/ part = "ari" /\ text = "paris"

\* a search that keeps the last match
FindTargetLast(relevantMemories, targetContent) ==
    LET hits == {i \in 1..Len(relevantMemories) :
                    Includes(LowerCase(relevantMemories[i].content),
                             LowerCase(targetContent))}
    IN IF hits = {} THEN 0 ELSE CHOOSE i \in hits : \A j \in hits : i >= j

\* relevantMemories.find(m => m.content.toLowerCase().includes(
\* conn.targetContent.toLowerCase())): index of the first match, 0 when none
\* (memory.ts:119-121)
FindTarget(relevantMemories, targetContent) ==
    LET hits == {i \in 1..Len(relevantMemories) :
                    Includes(LowerCase(relevantMemories[i].content),
                             LowerCase(targetContent))}
    IN IF hits = {} THEN 0 ELSE CHOOSE i \in hits : \A j \in hits : i <= j

\* memory.connections.map(...).filter(conn => conn !== null)
\* (memory.ts:116-130)
ResolveConnections(relevantMemories, proposed) ==
    LET f[k \in 0..Len(proposed)] ==
            IF k = 0 THEN <<>>
            ELSE LET i == FindTarget(relevantMemories, proposed[k].targetContent)
                 IN IF i = 0 THEN f[k - 1]
                    ELSE Append(f[k - 1],
                                Connection(proposed[k].type,
                                           relevantMemories[i].id,
                                           proposed[k].strength,
                                           proposed[k].description))
    IN f[Len(proposed)]

\* one element of `memories` (memory.ts:111-136): no id, no timestamp;
\* metadata.timestamp is the clock at the mapping
ExtractedMemory(candidate, relevantMemories, now) ==
    [content           |-> candidate.content,
     confidence        |-> ConfidenceOrDefault(candidate.confidence),
     connections       |-> ResolveConnections(relevantMemories,
                                              candidate.connections),
     tags              |-> candidate.tags,
     metadataTimestamp |-> now]

\* the n-th value crypto.randomUUID() gives: unlike every id in use
UUID(n) == 100 + n

\* fullMemory (memory.ts:140-144)
FullMemory(memory, id, timestamp) ==
    [id                |-> id,
     content           |-> memory.content,
     confidence        |-> memory.confidence,
     timestamp         |-> timestamp,
     connections       |-> memory.connections,
     tags              |-> memory.tags,
     metadataTimestamp |-> memory.metadataTimestamp]

\* `return memories` returning the records that were stored
ReturnedFullMemories(mems, stored) == stored

\* `return memories` (memory.ts:148)
ReturnedMemories(mems, stored) == mems

\* a catch block that rethrows
ExtractRethrows == [signalled |-> TRUE, returned |-> <<>>]

\* the two catch blocks of extractMemories: log, return [] (memory.ts:149-156)
ExtractCatch == [signalled |-> FALSE, returned |-> <<>>]

\* does findSimilarMemories end in its catch block
LookupFails(mems, embedOk, queryEmbedding) ==
    \/ ~embedOk
    \/ \E i \in 1..Len(mems) :
          cosineSimilarity(queryEmbedding, mems[i].embedding).threw

\* extractMemories(conversation, existingMemories) up to
\* `await findSimilarMemories(conversation, 5)` (memory.ts:91-97)
ExtractMemories(conversation, existingMemories) ==
    /\ constructed
    /\ extract.stage = "none"
    /\ extract' = [extract EXCEPT !.stage = "lookup",
                                  !.conversation = conversation,
                                  !.existingMemories = existingMemories,
                                  !.before = vsMemories]
    /\ ev' = Event("extractMemories:call", 0, "pending", "none", FALSE)
    /\ UNCHANGED <<memories, vsMemories, storage, disk, constructed, ops, nops,
                   queue, deleted, found, related, cosine>>

\* the embedding of the conversation has settled: findSimilarMemories
\* returns, the context is built and the language model is called
\* (index.ts:85-117, memory.ts:97-107)
ExtractLookupResumes(embedOk) ==
    /\ extract.stage = "lookup"
    /\ queue = <<>>
    /\ LET similarMemories ==
               findSimilarMemories(vsMemories, embedOk,
                                   Embed(extract.conversation), 5,
                                   DefaultMinSimilarity).result
       IN extract' =
            [extract EXCEPT
               !.stage = "llm",
               !.lookup = IF LookupFails(vsMemories, embedOk,
                                         Embed(extract.conversation))
                          THEN "failed" ELSE "ok",
               !.relevantMemories =
                   extract.existingMemories
                     \o [k \in 1..Len(similarMemories) |->
                            similarMemories[k].memory]]
    /\ ev' = Event("extractMemories:lookup", 0, "fulfilled", "none", FALSE)
    /\ UNCHANGED <<memories, vsMemories, storage, disk, constructed, ops, nops,
                   queue, deleted, found, related, cosine>>

\* callOpenRouter has settled (memory.ts:107-146).  response.kind:
\* "rejected" (fetch failed, status not ok, no choices: memory.ts:57-80),
\* "nonjson" (JSON.parse throws), "wrongshape" (parsed.memories is not a
\* list), "json" with the candidates.  Runs up to the first
\* `await vectorStore.addMemory` or to the return.
ExtractResponseArrives(response, tick) ==
    /\ extract.stage = "llm"
    /\ LET now == extract.now + tick
           mems == IF response.kind = "json"
                   THEN [k \in 1..Len(response.memories) |->
                           ExtractedMemory(response.memories[k],
                                           extract.relevantMemories,
                                           extract.now)]
                   ELSE <<>>
       IN IF response.kind # "json"
          THEN extract' = [extract EXCEPT !.stage = "done",
                                          !.response = response.kind,
                                          !.signalled = ExtractCatch.signalled,
                                          !.returned = ExtractCatch.returned]
          ELSE IF mems = <<>>
          THEN extract' = [extract EXCEPT !.stage = "done",
                                          !.response = response.kind,
                                          !.memories = mems,
                                          !.returned = ReturnedMemories(mems, <<>>)]
          ELSE extract' = [extract EXCEPT !.stage = "storing",
                                          !.response = response.kind,
                                          !.memories = mems,
                                          !.index = 1,
                                          !.now = now,
                                          !.fullMemory =
                                              FullMemory(mems[1], UUID(1), now)]
    /\ ev' = Event("extractMemories:response", 0, "fulfilled", "none", FALSE)
    /\ UNCHANGED <<memories, vsMemories, storage, disk, constructed, ops, nops,
                   queue, deleted, found, related, cosine>>

\* the embedding of fullMemory.content has settled: vectorStore.addMemory
\* upserts and persists, or rejects; the loop goes on to the next memory,
\* to the return, or to the catch block (index.ts:48-77, memory.ts:139-152)
ExtractStoreResumes(embedOk, tick) ==
    /\ extract.stage = "storing"
    /\ queue = <<>>
    /\ LET r == VSAddMemory(vsMemories, extract.fullMemory, embedOk, disk,
                            storage)
           now == extract.now + tick
           stored == Append(extract.stored, extract.fullMemory)
           index == extract.index + 1
       IN /\ vsMemories' = r.memories
          /\ storage' = r.storage
          /\ ev' = Event("vectorStore.addMemory", extract.fullMemory.id,
                         r.outcome, r.saved, r.replaced)
          /\ IF r.outcome = "rejected"
             THEN extract' = [extract EXCEPT !.stage = "done",
                                             !.storeFailed = TRUE,
                                             !.signalled = ExtractCatch.signalled,
                                             !.returned = ExtractCatch.returned]
             ELSE IF index > Len(extract.memories)
             THEN extract' = [extract EXCEPT !.stage = "done",
                                             !.stored = stored,
                                             !.returned =
                                                 ReturnedMemories(extract.memories,
                                                                  stored)]
             ELSE extract' = [extract EXCEPT !.stored = stored,
                                             !.index = index,
                                             !.now = now,
                                             !.fullMemory =
                                                 FullMemory(extract.memories[index],
                                                            UUID(index), now)]
    /\ UNCHANGED <<memories, disk, constructed, ops, nops, queue, deleted,
                   found, related, cosine>>

-----------------------------------------------------------------------------
(* One extractMemories call on a vector store an earlier session left       *)
(* (SpecExtract)                                                            *)

\* longest list of memories the language model proposes
MaxExtracted == 2

\* a connection the language model proposes: its target named by content
Proposed(type, targetContent, strength, description) ==
    [type |-> type, targetContent |-> targetContent, strength |-> strength,
     description |-> description]

\* entries of parsed.memories (memory.ts:17-38, 111)
Candidates ==
    {[content |-> "Rome", confidence |-> [given |-> TRUE, value |-> 50],
      tags |-> <<>>, connections |-> <<>>],
     [content |-> "Lima", confidence |-> NoConfidence, tags |-> <<"t">>,
      connections |-> <<Proposed("causes", "PARIS", 96, "why"),
                        Proposed("related_to", "Oslo", 50, "undefined"),
                        Proposed("part_of", "ARI", 50, "undefined")>>]}

\* what callOpenRouter and JSON.parse can give
Responses ==
    {[kind |-> k, memories |-> <<>>] :
        k \in {"rejected", "nonjson", "wrongshape"}}
    \cup {[kind |-> "json", memories |-> c] :
            c \in UNION {[1..n -> Candidates] : n \in 0..MaxExtracted}}

\* vector collections an earlier session left: the last one has a vector
\* written when the embedding provider had another dimension
ExtractCollections ==
    {<<>>,
     <<StoredRecord(1, "Paris", <<3, 4>>)>>,
     <<StoredRecord(1, "Paris", <<3, 4>>), StoredRecord(2, "Rome", <<4, 3, 0>>)>>}

InitExtract ==
    /\ memories = <<>>
    /\ vsMemories \in ExtractCollections
    /\ storage = [kind |-> "json", value |-> vsMemories]
    /\ disk = "ok"
    /\ constructed = TRUE
    /\ ops = [o \in OpIds |-> NilOp]
    /\ nops = 0
    /\ queue = <<>>
    /\ ev = Event("init", 0, "none", "none", FALSE)
    /\ deleted = [i \in Ids |-> FALSE]
    /\ found = NoFound
    /\ related = NoRelated
    /\ extract = NoExtract
    /\ cosine = NoCosine

\* lists a caller passes as existingMemories (memory.ts:93): none, a memory
\* unlike the stored ones, a memory whose content differs from a stored one
\* by case only
SuppliedMemories ==
    {<<>>, <<GraphMemory(3)>>, <<NewMemory(3, "paris", 3, <<>>)>>}

NextExtract ==
    \/ \E conversation \in {"Paris", "Lima"},
          existingMemories \in SuppliedMemories :
          ExtractMemories(conversation, existingMemories)
    \/ \E embedOk \in BOOLEAN : ExtractLookupResumes(embedOk)
    \/ \E response \in Responses, tick \in {0, 1} :
          ExtractResponseArrives(response, tick)
    \/ \E embedOk \in BOOLEAN, tick \in {0, 1} :
          ExtractStoreResumes(embedOk, tick)

SpecExtract == InitExtract /\ [][NextExtract]_vars

\* the call has returned
ExtractDone == extract.stage = "done"

\* the call has returned after storing every memory the model proposed
ExtractSucceeded ==
    /\ ExtractDone
    /\ extract.response = "json"
    /\ ~extract.storeFailed
    /\ extract.memories # <<>>

\* the records of the vector store that this call upserted
StoredAt(i) == vsMemories[FindIndex(vsMemories, extract.stored[i].id)]

FreshIds ==
    /\ \A i \in 1..Len(extract.stored) :
          extract.stored[i].id \notin IdsOf(extract.before)
    /\ \A i, j \in 1..Len(extract.stored) :
          i # j => extract.stored[i].id # extract.stored[j].id

\* C19 as stated: every memory a successful extractMemories call returns
\* carries the id and the timestamp under which the call stored it in the
\* vector store, the ids fresh and pairwise distinct.
C19_ReturnedCarryStoredIds ==
    ExtractSucceeded
    => /\ Len(extract.returned) = Len(extract.stored)
       /\ FreshIds
       /\ \A i \in 1..Len(extract.returned) :
             /\ "id" \in DOMAIN extract.returned[i]
             /\ "timestamp" \in DOMAIN extract.returned[i]
             /\ extract.returned[i].id = StoredAt(i).id
             /\ extract.returned[i].timestamp = StoredAt(i).timestamp

\* C19 amended: the memories a successful call returns carry neither id nor
\* timestamp; the i-th one was stored in the vector store with its content
\* and tags under a fresh id, distinct from the ids of the others.
C19_ReturnedWithoutIds ==
    ExtractSucceeded
    => /\ Len(extract.returned) = Len(extract.stored)
       /\ FreshIds
       /\ \A i \in 1..Len(extract.returned) :
             /\ "id" \notin DOMAIN extract.returned[i]
             /\ "timestamp" \notin DOMAIN extract.returned[i]
             /\ FindIndex(vsMemories, extract.stored[i].id) > 0
             /\ StoredAt(i).content = extract.returned[i].content
             /\ StoredAt(i).tags = extract.returned[i].tags
             /\ StoredAt(i).timestamp = extract.stored[i].timestamp

\* C19 witness: a call has returned two memories, stored at different
\* times behind the records of an earlier session.
C19_Witness ==
    /\ ExtractSucceeded
    /\ Len(extract.returned) = 2
    /\ extract.before # <<>>
    /\ StoredAt(1).timestamp # StoredAt(2).timestamp

\* a step of the call failed: the similarity lookup, the language-model
\* call, the parsing of its response, or an embedding while storing
LaterStepFailed ==
    \/ extract.response \in {"rejected", "nonjson", "wrongshape"}
    \/ extract.storeFailed

-----------------------------------------------------------------------------
(* Claims about extractMemories and the vector store (SpecExtract) *)

\* C21: when extractMemories returns the empty list because an embedding
\* failed while it was persisting the new memories, the vector store is as
\* it was before the call: no StoredVector the call created is left, also
\* when the failure hit the second or a later memory.
C21_FailedExtractLeavesStore ==
    (ExtractDone /\ extract.storeFailed)
    => /\ extract.returned = <<>>
       /\ vsMemories = extract.before

\* the context memories whose content contains the text, ignoring case
Matching(context, text) ==
    {i \in 1..Len(context) :
        Includes(LowerCase(context[i].content), LowerCase(text))}

\* `resolved` is `proposed` without the proposals that match no context
\* memory, each other one pointing at the first context memory it matches
ResolvedFrom(resolved, proposed, context) ==
    LET kept == {k \in 1..Len(proposed) :
                    Matching(context, proposed[k].targetContent) # {}}
        place(k) == Cardinality({j \in kept : j <= k})
    IN /\ Len(resolved) = Cardinality(kept)
       /\ \A k \in kept :
             LET hits == Matching(context, proposed[k].targetContent)
                 c == resolved[place(k)]
             IN /\ c.type = proposed[k].type
                /\ c.strength = proposed[k].strength
                /\ c.description = proposed[k].description
                /\ \E i \in hits :
                      /\ \A j \in hits : i <= j
                      /\ c.targetId = context[i].id

\* C22: every connection of an extracted memory points at the first context
\* memory (the supplied existingMemories, then the similar memories of the
\* vector store) whose content contains the proposed targetContent, ignoring
\* case; a proposal matching no context memory is dropped, and the other
\* connections and memories of the extraction are kept and returned.
C22_ConnectionsResolvedByContent ==
    [][/\ \A embedOk \in BOOLEAN :
             ExtractLookupResumes(embedOk)
             => LET n == Len(extract.existingMemories)
                    context == extract'.relevantMemories
                IN /\ Len(context) >= n
                   /\ SubSeq(context, 1, n) = extract.existingMemories
                   /\ \A i \in (n + 1)..Len(context) :
                         \E j \in 1..Len(vsMemories) :
                            /\ context[i].id = vsMemories[j].id
                            /\ context[i].content = vsMemories[j].content
       /\ \A response \in Responses, tick \in {0, 1} :
             (ExtractResponseArrives(response, tick) /\ response.kind = "json")
             => /\ Len(extract'.memories) = Len(response.memories)
                /\ \A k \in 1..Len(response.memories) :
                      /\ extract'.memories[k].content =
                            response.memories[k].content
                      /\ ResolvedFrom(extract'.memories[k].connections,
                                      response.memories[k].connections,
                                      extract.relevantMemories)
       /\ (extract'.stage = "done" /\ extract'.response = "json"
             /\ ~extract'.storeFailed)
          => /\ Len(extract'.returned) = Len(extract'.memories)
             /\ \A k \in 1..Len(extract'.returned) :
                   extract'.returned[k].connections =
                      extract'.memories[k].connections
      ]_vars

\* C22 witness: the supplied memory and a similar memory of the vector store
\* both contain the proposed text; the returned memory keeps two of its three
\* proposals, both pointing at the supplied memory.
C22_Witness ==
    /\ ExtractSucceeded
    /\ Len(extract.relevantMemories) = 2
    /\ extract.existingMemories # <<>>
    /\ Matching(extract.relevantMemories, "PARIS") = {1, 2}
    /\ \E k \in 1..Len(extract.returned) :
          /\ Len(extract.returned[k].connections) = 2
          /\ extract.returned[k].connections[1].targetId =
                extract.relevantMemories[1].id

-----------------------------------------------------------------------------
(* cosineSimilarity on vectors of any length (SpecCosine) *)

\* vectors an embedding or a persisted record can hold: empty, of zero
\* magnitude, of one, two and three dimensions
Vectors ==
    {<<>>, <<0>>, <<5>>, <<0, 0>>, <<3, 4>>, <<4, 3>>, <<-4, 3>>,
     <<0, 0, 0>>, <<4, 3, 0>>, <<0, -3, 4>>}

\* cosineSimilarity(a, b) called on the chosen arguments (google.ts:247-270)
CosineSimilarity ==
    /\ cosine.stage = "args"
    /\ LET r == cosineSimilarity(cosine.a, cosine.b)
       IN cosine' = [cosine EXCEPT !.stage = "done", !.threw = r.threw,
                                   !.value = r.value]
    /\ ev' = Event("cosineSimilarity", 0, Outcome(cosine'.threw), "none", FALSE)
    /\ UNCHANGED <<memories, vsMemories, storage, disk, constructed, ops, nops,
                   queue, deleted, found, related, extract>>

InitCosine ==
    /\ memories = <<>>
    /\ vsMemories = <<>>
    /\ storage = NoStorage
    /\ disk = "ok"
    /\ constructed = TRUE
    /\ ops = [o \in OpIds |-> NilOp]
    /\ nops = 0
    /\ queue = <<>>
    /\ ev = Event("init", 0, "none", "none", FALSE)
    /\ deleted = [i \in Ids |-> FALSE]
    /\ found = NoFound
    /\ related = NoRelated
    /\ extract = NoExtract
    /\ cosine \in {[NoCosine EXCEPT !.stage = "args", !.a = a, !.b = b] :
                      a \in Vectors, b \in Vectors}

NextCosine == CosineSimilarity

SpecCosine == InitCosine /\ [][NextCosine]_vars

\* the zero-magnitude vectors, the empty one among them
ZeroMagnitude(v) == \A i \in 1..Len(v) : v[i] = 0

\* C25: cosineSimilarity(a, b) signals an error for every pair of vectors of
\* unequal length and returns no score for it, also when one of the two is
\* empty or has zero magnitude.
C25_UnequalLengthsSignal ==
    (cosine.stage = "done" /\ Len(cosine.a) # Len(cosine.b))
    => /\ cosine.threw
       /\ ev.outcome = "rejected"

\* C25 witness: a call with a vector of zero magnitude (the empty vector is
\* one) against a vector of another length and of positive magnitude has
\* signalled.
C25_Witness ==
    /\ cosine.stage = "done"
    /\ Len(cosine.a) # Len(cosine.b)
    /\ ZeroMagnitude(cosine.a)
    /\ ~ZeroMagnitude(cosine.b)
    /\ cosine.threw

-----------------------------------------------------------------------------
(* store.addMemory with a confidence of the caller's (SpecRated) *)

\* store.addMemory(memory) for a memory that comes with or without a
\* confidence (part_000:35), up to `await generateEmbedding` (as AddMemory)
AddMemoryRated(id, content, timestamp, tags, confidence) ==
    /\ constructed
    /\ ops' = [ops EXCEPT ![nops + 1] =
                  Op("addMemory", id,
                     [NewMemory(id, content, timestamp, tags)
                         EXCEPT !.confidence = ConfidenceOrDefault(confidence)],
                     "embedding", "pending")]
    /\ nops' = nops + 1
    /\ deleted' = [deleted EXCEPT ![id] = FALSE]
    /\ ev' = Event("addMemory:call", id, "pending", "none", FALSE)
    /\ UNCHANGED <<memories, vsMemories, storage, disk, constructed, queue,
                   found, related, extract, cosine>>

\* confidences a caller passes: none, the two ends of [0, 1], one inside
Confidences ==
    {NoConfidence} \cup {[given |-> TRUE, value |-> v] : v \in {0, 50, 100}}

NextRated ==
    \/ /\ nops < MaxOps
       /\ \E id \in Ids, content \in {"Paris", "Rome"},
             confidence \in Confidences :
             AddMemoryRated(id, content, 2, <<>>, confidence)
    \/ \E o \in OpIds, ok \in BOOLEAN : EmbeddingSettles(o, ok)
    \/ GenerateEmbeddingResumes
    \/ VectorStoreAddResumes
    \/ AddMemoryResumes

SpecRated == Init /\ [][NextRated]_vars

\* the confidence the claim has addMemory record: the caller's, 1.0 when the
\* caller gave none
ConfidenceIfAbsent(confidence) ==
    IF ~confidence.given THEN DefaultConfidence ELSE confidence.value

\* the confidence recorded under the id in a collection
ConfidenceIn(mems, id) == mems[FindIndex(mems, id)].confidence

\* C26: addMemory records the confidence 1.0 only when the caller gave none;
\* a confidence the caller gave, 0 included, is the one of the memory the
\* call builds, and that one is stored unchanged in the StoredVector and in
\* the Memory.
C26_ConfidenceKept ==
    [][/\ \A id \in Ids, content \in {"Paris", "Rome"},
             confidence \in Confidences :
             AddMemoryRated(id, content, 2, <<>>, confidence)
             => ops'[nops + 1].memory.confidence =
                   ConfidenceIfAbsent(confidence)
       /\ (VectorStoreAddResumes /\ ev'.outcome = "fulfilled")
          => ConfidenceIn(vsMemories', ev'.id) =
                ops[Head(queue)].memory.confidence
       /\ (AddMemoryResumes /\ ev'.outcome = "fulfilled")
          => ConfidenceIn(memories', ev'.id) =
                ops[Head(queue)].memory.confidence
      ]_vars

-----------------------------------------------------------------------------
(* Claims about the frame of addConnection (SpecGraph) *)

\* C27: addConnection(S, T, ...) changes nothing but the connections list of
\* the memory S: every other memory, T among them, every other field of S,
\* the order of the collection, the vector store and its persisted copy are
\* unchanged, so a connection from S to T never makes one from T to S; when
\* S is absent the collection is unchanged; T need not be in the collection.
C27_AddConnectionFrame ==
    [][\A S \in StoredIds, T \in StoredIds :
          (ev'.step = "addConnection" /\ ev'.id = S /\ ev'.targetId = T)
          => /\ vsMemories' = vsMemories
             /\ storage' = storage
             /\ Len(memories') = Len(memories)
             /\ \A i \in 1..Len(memories) :
                   /\ memories'[i].id = memories[i].id
                   /\ memories[i].id # S => memories'[i] = memories[i]
                   /\ [memories'[i] EXCEPT !.connections = <<>>]
                         = [memories[i] EXCEPT !.connections = <<>>]
                   /\ (memories[i].id = T /\ T # S)
                         => PlacesTo(memories'[i].connections, S)
                               = PlacesTo(memories[i].connections, S)
             /\ FindIndex(memories, S) = 0 => memories' = memories
             /\ FindIndex(memories, S) > 0
                   => PlacesTo(ConnectionsOf(memories', S), T) # {}
      ]_vars

\* C27 witness: a memory was given a connection to another memory of the
\* collection that has no connection back, after it was given one to an id
\* that is not in the collection.
C27_Witness ==
    /\ ev.step = "addConnection"
    /\ ev.id # ev.targetId
    /\ FindIndex(memories, ev.targetId) > 0
    /\ HasConnection(memories, ev.id, ev.targetId)
    /\ ~HasConnection(memories, ev.targetId, ev.id)
    /\ \E k \in 1..Len(ConnectionsOf(memories, ev.id)) :
          FindIndex(memories, ConnectionsOf(memories, ev.id)[k].targetId) = 0

-----------------------------------------------------------------------------
(* Claims about the members of getRelatedMemories' result (SpecGraph) *)

\* ids of the memories the call returned, in order
ResultIds == [k \in 1..Len(related.result) |-> related.result[k].id]

\* C28: for a memory A of the collection, the result of
\* getRelatedMemories(A) holds neither A itself nor the same id twice.
C28_NoSelfNoRepeat ==
    RelatedDone
    => /\ \A k \in 1..Len(ResultIds) : ResultIds[k] # related.id
       /\ \A k, j \in 1..Len(ResultIds) : ResultIds[k] = ResultIds[j] => k = j

-----------------------------------------------------------------------------
(* Claims about the two collections at rest (Spec) *)

\* C29: whenever no call is in flight, every StoredVector of the vector
\* store has a Memory of the same id in the collection: no orphan vectors.
C29_NoOrphanVectors ==
    Quiescent => IdsOf(vsMemories) \subseteq IdsOf(memories)

-----------------------------------------------------------------------------
(* Claims about the steps of the vector store's operations (Spec) *)

\* the upsert of call o has started and has not ended: it is at its await
\* of the embedding or its continuation is queued (index.ts:48)
UpsertInFlight(o) ==
    /\ ops[o].kind \in {"addMemory", "updateMemoryTags"}
    /\ ops[o].stage \in {"embedding", "generateEmbedding", "vectorStore"}

\* C24: an upsert, a delete and a clear of the vector store each run to
\* completion before another operation observes or mutates the collection:
\* between the start and the end of an upsert no delete, no clear and no
\* mutation of another upsert takes effect, and every change of the
\* collection is persisted in the step that makes it.
C24_UpsertRunsToCompletion ==
    [][/\ \A o \in OpIds :
             UpsertInFlight(o)
             => ~ \/ \E id \in Ids : RemoveMemory(id)
                  \/ ClearMemories
                  \/ VectorStoreAddResumes /\ Head(queue) # o
       /\ vsMemories' # vsMemories
             => storage' = [kind |-> "json", value |-> vsMemories']
      ]_vars

-----------------------------------------------------------------------------
(* Reads while removals and tag updates are in flight (SpecReads): the      *)
(* collections of SpecGraph, removeMemory and updateMemoryTags calls, one   *)
(* findSimilarMemories call and one getRelatedMemories call                 *)

NextReads ==
    /\ related.stage # "done"
    /\ \/ nops < MaxOps /\ \E id \in Ids : RemoveMemory(id)
       \/ nops < MaxOps /\ \E id \in Ids : UpdateMemoryTags(id, <<"t">>)
       \/ /\ ~found.valid
          /\ \E content \in {"Paris", "Rome"} :
                FindSimilarMemories(content, TRUE, DefaultLimit,
                                    DefaultMinSimilarity)
       \/ \E id \in RelatedTargets : GetRelatedMemories(id)
       \/ \E embedOk \in BOOLEAN : GetRelatedMemoriesResumes(embedOk)
       \/ \E o \in OpIds, ok \in BOOLEAN : EmbeddingSettles(o, ok)
       \/ GenerateEmbeddingResumes
       \/ VectorStoreAddResumes
       \/ RemoveMemoryResumes

SpecReads == InitGraph /\ [][NextReads]_vars

\* ids of the matches the findSimilarMemories call returned
FoundIds == {found.result[k].memory.id : k \in 1..Len(found.result)}

\* C23: a findSimilarMemories or getRelatedMemories call reflects every
\* upsert and delete completed before it was issued: it returns no memory
\* whose removal had completed by then (no upsert of the id issued since),
\* and findSimilarMemories leaves out no stored vector at or above the floor
\* while the result is shorter than the limit.
C23_ReadsReflectCompleted ==
    /\ JustFound
       => /\ \A id \in Ids : deleted[id] => id \notin FoundIds
          /\ (~found.signalled /\ Len(found.result) < found.limit)
                => \A i \in Qualifying : vsMemories[i].id \in FoundIds
    /\ ev.step = "getRelatedMemories"
       => \A id \in related.removed :
             deleted[id] => \A k \in 1..Len(ResultIds) : ResultIds[k] # id

-----------------------------------------------------------------------------
(* Claims about getRelatedMemories and the collection at its return         *)
(* (SpecReads)                                                              *)

\* C30: at the moment getRelatedMemories(A) returns, every memory of its
\* result is in the collection: not one that a removeMemory completed during
\* the await has removed, not the target of a dangling connection.
C30_ResultInCollection ==
    ev.step = "getRelatedMemories"
    => \A k \in 1..Len(ResultIds) : ResultIds[k] \in IdsOf(memories)

=============================================================================
